---- MODULE Spec2Model ----
(***************************************************************************)
(* State-machine model of the agent-conversation engine of                 *)
(* tabs/tab_agent_convo.py: the generator                                  *)
(* joint_conversation_with_selected_agents, the retry loop of              *)
(* call_gemini_api, evaluate_response and save_discussion_data_db.         *)
(*                                                                         *)
(* Texts are sequences of word tokens (punctuation is a token of its own), *)
(* so that the substring tests of the code are computed, not assumed.      *)
(* Non-ASCII letters of the German messages are transliterated.            *)
(***************************************************************************)
EXTENDS Integers, Sequences, FiniteSets, TLC

\* ------------------------------------------------------------------ bounds
MaxIter == 2        \* largest iteration count N, any outcome of a call
MaxRoster == 2      \* largest number of selected agents R, likewise
MaxLongIter == 4    \* largest N of the runs with few outcomes of a call
MaxLongRoster == 3  \* largest R of the runs with few outcomes of a call
MaxStagIter == 6    \* largest N of the runs that look at stagnation
MaxStagRoster == 3  \* largest R of the runs that look at stagnation
MaxRateCalls == 3   \* largest number of rate_agent_response calls
MaxSaves == 3       \* largest number of save_discussion_data_db calls
MaxVotes == 2       \* largest number of clicks on the vote buttons
MaxRaters == 2      \* largest number of threads in rate_agent_response
MaxConcIter == 3    \* largest N of two runs that go on at the same time
MaxConcRoster == 2  \* largest R of two runs that go on at the same time

\* ------------------------------------------------------- program constants
api_sleep_seconds == 10
api_max_retries == 3

\* ----------------------------------------------------------------- values
None == "None"              \* Python None where a string is expected
NoneIter == 0               \* Python None where an iteration index is expected
EmptyText == <<>>           \* the empty string ""
Timestamp == "t1"           \* datetime.now().strftime(...) at run start
OtherRun == "u0"            \* owner of a row another run has stored

AgentNames == <<"A", "B", "C", "D", "E">>
Personalities == <<"kritisch", "visionaer", "konservativ", "neutral">>

\* agent_config_data entry k with the personality radio chosen for it
AgentConfig(k) ==
    [name |-> AgentNames[k],
     personality |-> Personalities[((k - 1) % 4) + 1]]

\* texts the remote service may answer with (response.text); EmptyText is a
\* missing or empty payload
ReplyTexts ==
    { <<"ok">>,
      <<"Ich", "Wiederhole", "mich">>,
      <<"Neue", "Perspektive">>,
      EmptyText }

\* str(e) of a raised exception
ErrTexts == { <<"boom">> }

\* outcomes of one client.models.generate_content call
Outcomes ==
    [kind : {"text"}, status : {200}, text : ReplyTexts]
    \cup [kind : {"api_error"}, status : {429, 503, 401, 500}, text : ErrTexts]
    \cup [kind : {"exception"}, status : {0}, text : ErrTexts]

\* ------------------------------------------------------- message constants
EmptyMsg == <<"Leere", "Antwort", "von", "Gemini", "API", ".">>
RateLimitMsg ==
    <<"API", "Rate", "Limit", "erreicht", "nach", "mehreren", "Versuchen", ".",
      "Bitte", "spaeter", "erneut", "versuchen", ".">>
OverloadMsg ==
    <<"Gemini", "API", "Server", "ueberlastet", "nach", "mehreren",
      "Versuchen", ".">>
AuthMsg ==
    <<"Authentifizierungsfehler", "bei", "der", "Gemini", "API", ".",
      "Ueberpruefen", "Sie", "den", "API-Schluessel", ".">>
UnexpectedMsg(err_s) ==
    <<"Unerwarteter", "Fehler", "bei", "Gemini", "API", "Aufruf", "nach",
      "mehreren", "Versuchen", ":">> \o err_s
GenericMsg(err_s) ==
    <<"Fehler", "bei", "Gemini", "API", "Aufruf", ":">> \o err_s
UnknownMsg ==
    <<"Unbekannter", "Fehler", "nach", "mehreren", "API-Versuchen", ".">>
ErrorMarker == <<"Fehler", "bei", "Gemini", "API", "Aufruf">>
NewTopic == <<"Neues", "Thema", ":", "KI-Trends", "2026">>

\* ------------------------------------------------------------ text helpers
\* the Python `sub in s` test on strings
Contains(s, sub) ==
    \E k \in 1..(Len(s) - Len(sub) + 1) :
        SubSeq(s, k, k + Len(sub) - 1) = sub

\* str.lower() on one word
LowerTok(w) ==
    CASE w = "Ich" -> "ich"
      [] w = "Wiederhole" -> "wiederhole"
      [] w = "Neue" -> "neue"
      [] w = "Perspektive" -> "perspektive"
      [] w = "Leere" -> "leere"
      [] w = "Antwort" -> "antwort"
      [] w = "Gemini" -> "gemini"
      [] w = "API" -> "api"
      [] w = "Rate" -> "rate"
      [] w = "Limit" -> "limit"
      [] w = "Versuchen" -> "versuchen"
      [] w = "Bitte" -> "bitte"
      [] w = "Server" -> "server"
      [] w = "Authentifizierungsfehler" -> "authentifizierungsfehler"
      [] w = "Ueberpruefen" -> "ueberpruefen"
      [] w = "Sie" -> "sie"
      [] w = "API-Schluessel" -> "api-schluessel"
      [] w = "Unerwarteter" -> "unerwarteter"
      [] w = "Fehler" -> "fehler"
      [] w = "Aufruf" -> "aufruf"
      [] w = "Unbekannter" -> "unbekannter"
      [] w = "API-Versuchen" -> "api-versuchen"
      [] w = "Neues" -> "neues"
      [] w = "Thema" -> "thema"
      [] w = "KI-Trends" -> "ki-trends"
      [] OTHER -> w

Lower(s) == [k \in DOMAIN s |-> LowerTok(s[k])]

evaluate_response(response) ==
    LET resp_l == Lower(response) IN
    IF Contains(resp_l, <<"wiederhole", "mich">>) THEN "schlechte antwort"
    ELSE IF Contains(resp_l, <<"neue", "perspektive">>) THEN "gute antwort"
    ELSE "neutral"


\* ------------------------------------------------------------------- state
VARIABLES
    pc,               \* position of the run: "idle", "rejected", "yielded",
                      \* "final", "done", "stopped", "aborted" (an exception
                      \* left the generator); "calling" and "returned"
                      \* for a call of call_gemini_api looked at on its own
    selected_agents,  \* the roster, a sequence of agent configurations
    iterations,       \* N
    user_state,       \* logged-in user name or None
    discussion_id,    \* the run id
    chat_history,     \* the transcript, a sequence of entries
    i,                \* loop variable of the generator (0-based)
    agent_outputs,    \* the window: last output of each roster position
    topic_changed,    \* stagnation injection already happened
    agent_output,     \* output adopted for the current iteration
    api,              \* locals of the call_gemini_api call in flight
    calls,            \* the call_gemini_api calls made by the latest step of
                      \* the generator, in order
    emitted,          \* elements the generator has yielded, in order
    rating_state,     \* the UI's rating_info state
    db,               \* rows of the discussions table
    injections,       \* the stagnation injections of the run, in order
    saved,            \* the save_discussion_data_db calls of the run, in order
    discussion_ratings,  \* the rating ledger in memory
    rating_file,      \* the content of rating_data.json
    rate_call,        \* the latest call of rate_agent_response
    tally,            \* the call_gemini_api calls of the run so far and the
                      \* iterations among them whose first reply was poor
    vote,             \* the clicks on the vote buttons so far and the label
                      \* the latest one returned
    other,            \* the locals of a second run's generator
    raters            \* the rate_agent_response calls in progress in threads

runVars == <<selected_agents, iterations, user_state, discussion_id>>
logVars == <<injections, saved>>
ledgerVars == <<discussion_ratings, rating_file, rate_call>>
sessionVars == <<vote, other, raters>>
vars == <<pc, selected_agents, iterations, user_state, discussion_id,
          chat_history, i, agent_outputs, topic_changed, agent_output, api,
          calls, emitted, rating_state, db, injections, saved,
          discussion_ratings, rating_file, rate_call, tally, vote, other,
          raters>>

NoResult == <<"#none">>
NoOutcome == [kind |-> "none", status |-> 0, text |-> EmptyText]
NoRating == [discussion_id |-> None, iteration |-> NoneIter, agent_name |-> None]

\* an entry the chatbot already holds when a run is started
PriorEntry ==
    [role |-> "user", tag |-> "prior", agent |-> None, iteration |-> NoneIter,
     prev_agent |-> None, text |-> <<"hallo">>]

\* json.dumps of a list: the stored text wraps the value it encodes
JsonDumps(v) == [json |-> v]

\* a row stored by another run that was started in the same second
OtherRow ==
    [discussion_id |-> Timestamp, topic |-> "Y", agents |-> JsonDumps(<<"A">>),
     chat_history |-> JsonDumps(<<>>), summary |-> <<"ok">>, user |-> OtherRun]

\* --------------------------------------------------------- call_gemini_api
\* the locals at entry: `retry_delay = self.api_sleep_seconds`, attempt 0
ApiInit ==
    [attempt |-> 0,
     retry_delay |-> api_sleep_seconds,
     sleeps |-> <<>>,          \* time.sleep calls so far, in order
     tries |-> 0,              \* generate_content calls so far
     last |-> NoOutcome,       \* outcome of the latest generate_content call
     after_auth |-> FALSE,     \* an attempt was made after a 401 outcome
     result |-> NoResult,      \* the returned "response" text
     done |-> FALSE]           \* the function has returned

\* variant: the last attempt may be retried as well
MayRetry_Inclusive(a) == a <= api_max_retries

\* `attempt < self.api_max_retries`
MayRetry(a) == a < api_max_retries

\* variant: the delay grows by the base delay instead of doubling
Backoff_Linear(delay) == delay + api_sleep_seconds

\* `retry_delay *= 2`
Backoff(delay) == delay * 2

\* the wait before the retry that follows a failed attempt
RetryWait(status, delay) ==
    IF status = 429 THEN Backoff(delay) ELSE delay

\* variant: a 401 is reported like any other API error
TerminalMsg_NoAuth(o) ==
    IF o.kind = "exception" THEN GenericMsg(o.text)
    ELSE CASE o.status = 429 -> RateLimitMsg
           [] o.status = 503 -> OverloadMsg
           [] OTHER -> UnexpectedMsg(o.text)

\* text returned when an attempt fails and is not retried
TerminalMsg(o) ==
    IF o.kind = "exception" THEN GenericMsg(o.text)
    ELSE CASE o.status = 429 -> RateLimitMsg
           [] o.status = 503 -> OverloadMsg
           [] o.status = 401 -> AuthMsg
           [] OTHER -> UnexpectedMsg(o.text)

\* variant: a 401 is retried like any other API error
Retried_Auth(o, a) ==
    /\ o.kind = "api_error"
    /\ MayRetry(a)

\* an attempt with this outcome is followed by another attempt
Retried(o, a) ==
    /\ o.kind = "api_error"
    /\ o.status # 401
    /\ MayRetry(a)

\* text returned for a reply of the service
ReplyMsg(text) == IF text = EmptyText THEN EmptyMsg ELSE text

\* one pass of the `for attempt in range(self.api_max_retries + 1)` loop,
\* the remote call answering with outcome o; past the range the function
\* falls out of the loop without calling the service
ApiStep(st, o) ==
    IF st.attempt > api_max_retries
    THEN [st EXCEPT !.result = UnknownMsg, !.done = TRUE]
    ELSE LET st1 == [st EXCEPT !.tries = @ + 1,
                               !.last = o,
                               !.after_auth = @ \/ st.last.status = 401]
         IN  IF o.kind = "text"
             THEN [st1 EXCEPT
                     !.sleeps = Append(@, [why |-> "post", status |-> o.status,
                                           secs |-> api_sleep_seconds]),
                     !.result = ReplyMsg(o.text),
                     !.done = TRUE]
             ELSE IF Retried(o, st.attempt)
             THEN LET d == RetryWait(o.status, st.retry_delay) IN
                  [st1 EXCEPT
                     !.retry_delay = d,
                     !.sleeps = Append(@, [why |-> "retry", status |-> o.status,
                                           secs |-> d]),
                     !.attempt = @ + 1]
             ELSE [st1 EXCEPT !.result = TerminalMsg(o), !.done = TRUE]

\* a call of call_gemini_api looked at on its own, one attempt per step
call_gemini_api(o) ==
    /\ pc = "calling"
    /\ api' = ApiStep(api, o)
    /\ pc' = IF api'.done THEN "returned" ELSE "calling"
    /\ UNCHANGED <<runVars, chat_history, i, agent_outputs, topic_changed,
                   agent_output, calls, emitted, rating_state, db, logVars,
                   ledgerVars, sessionVars, tally>>

\* the states of a call after at most n further attempts
RECURSIVE ApiReach(_, _)
ApiReach(S, n) ==
    IF n = 0 THEN S
    ELSE ApiReach(S \cup { ApiStep(st, o) :
                             st \in { q \in S : ~q.done }, o \in Outcomes },
                  n - 1)

\* what is kept of a finished call: the text returned, the outcome of the
\* attempt that ended it, and whether a 401 outcome was followed by an attempt
CallSummary(st) ==
    [response |-> st.result, last |-> st.last, after_auth |-> st.after_auth]

\* every way a call of call_gemini_api can end
CallResults ==
    { CallSummary(st) :
        st \in { q \in ApiReach({ApiInit}, api_max_retries + 2) : q.done } }

\* ------------------------------- joint_conversation_with_selected_agents
num_agents == Len(selected_agents)
active_agents_names == [k \in 1..num_agents |-> selected_agents[k].name]

\* variant: the rotation starts at the second agent
AgentIdx_OffByOne(n, R) == (n + 1) % R

\* `agent_idx = i % num_agents` (0-based)
AgentIdx(n, R) == n % R

\* variant: the slot of the agent that speaks next
PrevIdx_Next(n, R) == (AgentIdx(n, R) + 1) % R

\* `(agent_idx - 1) % num_agents` (0-based)
PrevIdx(n, R) == (AgentIdx(n, R) - 1) % R

\* next(a for a in selected_agents if a["name"] == name)
ConfigOf(agents, name) ==
    agents[CHOOSE k \in 1..Len(agents) :
              /\ agents[k].name = name
              /\ \A j \in 1..(k - 1) : agents[j].name # name]

\* the sentence added to the prompt for a personality
Directive(personality) ==
    CASE personality = "kritisch" -> "Sei kritisch und hinterfrage Annahmen."
      [] personality = "visionaer" -> "Sei visionaer und denke gross."
      [] personality = "konservativ" ->
             "Sei konservativ und bleibe bei Bewaehrtem."
      [] OTHER -> None

\* prompt_txt of iteration n (0-based) given the window
TurnPrompt(agents, n, outputs) ==
    LET R == Len(agents)
        cur == agents[AgentIdx(n, R) + 1].name
    IN  [kind |-> "turn",
         iteration |-> n + 1,
         agent |-> cur,
         prev_agent |-> agents[PrevIdx(n, R) + 1].name,
         prev_output |-> outputs[PrevIdx(n, R) + 1],
         directive |-> Directive(ConfigOf(agents, cur).personality)]

\* "Versuche eine kreativere Antwort."
CreativePrompt ==
    [kind |-> "creative", iteration |-> NoneIter, agent |-> None,
     prev_agent |-> None, prev_output |-> EmptyText, directive |-> None]

\* "Fasse die gesamte Diskussion ueber ... zusammen."
SumPrompt ==
    [kind |-> "summary", iteration |-> NoneIter, agent |-> None,
     prev_agent |-> None, prev_output |-> EmptyText, directive |-> None]

\* the "user" entry appended before the call of an iteration
UserEntry(p) ==
    [role |-> "user", tag |-> "prompt", agent |-> p.agent,
     iteration |-> p.iteration, prev_agent |-> p.prev_agent,
     text |-> p.prev_output]

\* variant: the entry carries the 0-based loop variable
AnswerEntry_ZeroBased(name, n, text) ==
    [role |-> "assistant", tag |-> "answer", agent |-> name,
     iteration |-> n, prev_agent |-> None, text |-> text]

\* the "assistant" entry appended after the call of an iteration
AnswerEntry(name, n, text) ==
    [role |-> "assistant", tag |-> "answer", agent |-> name,
     iteration |-> n + 1, prev_agent |-> None, text |-> text]

SummaryEntry(text) ==
    [role |-> "assistant", tag |-> "summary", agent |-> None,
     iteration |-> NoneIter, prev_agent |-> None, text |-> text]

FinalEntry(text) ==
    [role |-> "assistant", tag |-> "final", agent |-> None,
     iteration |-> NoneIter, prev_agent |-> None, text |-> text]

\* variant: the last element carries no run id
Element_NoId(hist, chunk, did, itn, agn) ==
    [hist_len |-> Len(hist), chunk |-> chunk,
     discussion_id |-> IF itn = NoneIter THEN None ELSE did,
     iteration |-> itn, agent |-> agn]

\* the tuple handed to the consumer by a yield; the transcript is the live
\* list, of which the length at the time of the yield is kept
Element(hist, chunk, did, itn, agn) ==
    [hist_len |-> Len(hist), chunk |-> chunk, discussion_id |-> did,
     iteration |-> itn, agent |-> agn]

\* the loop body of process_input_custom_agents for one element
RatingOf(el) ==
    [discussion_id |-> el.discussion_id, iteration |-> el.iteration,
     agent_name |-> el.agent]

\* a call of call_gemini_api made in iteration itn (NoneIter: after the
\* loop) with prompt p that ended as r
Call(itn, p, r) ==
    [iter |-> itn, prompt |-> p, response |-> r.response, last |-> r.last,
     after_auth |-> r.after_auth]

\* variant: the window is not written
SetSlot_Stale(outputs, n, text) == outputs

\* the assignment of a reply to the window slot of the speaking agent
SetSlot(outputs, n, text) ==
    [outputs EXCEPT ![AgentIdx(n, Len(outputs)) + 1] = text]

\* variant: every reply that is not neutral is generated a second time
QualityRetry_NotNeutral(text) == evaluate_response(text) # "neutral"

\* `qual == "schlechte antwort"`: the reply is generated a second time
QualityRetry(text) == evaluate_response(text) = "schlechte antwort"

\* `"Fehler bei Gemini API Aufruf" not in retry_output`
RetryAdopted(retry_output) == ~Contains(retry_output, ErrorMarker)

\* the output of an iteration whose first reply was poor
Adopt(first, retry_output) ==
    IF RetryAdopted(retry_output) THEN retry_output ELSE first

\* the tally after an iteration that made the calls `made` and whose first
\* reply was `first`
Tallied(t, made, first) ==
    [calls |-> t.calls + Len(made),
     poor |-> t.poor
              + (IF evaluate_response(first) = "schlechte antwort" THEN 1
                 ELSE 0)]

\* the body of the for loop for iteration n (0-based) up to its yield: the
\* first call ends as r1 and the quality retry, if there is one, as r2
Iterate(agents, n, outputs, r1, r2) ==
    LET p == TurnPrompt(agents, n, outputs)
        name == p.agent
        first == r1.response
        poor == QualityRetry(first)
        out == IF poor THEN Adopt(first, r2.response) ELSE first
        hist == chat_history \o <<UserEntry(p), AnswerEntry(name, n, out)>>
        el == Element(hist, out, discussion_id', n + 1, name)
        made == <<Call(n + 1, p, r1)>>
                \o (IF poor THEN <<Call(n + 1, CreativePrompt, r2)>>
                    ELSE <<>>)
    IN  /\ poor \/ r2 = r1
        /\ i' = n
        /\ chat_history' = hist
        /\ calls' = made
        /\ tally' = Tallied(tally, made, first)
        /\ agent_output' = out
        /\ agent_outputs' = SetSlot(outputs, n, out)
        /\ emitted' = Append(emitted, el)
        /\ rating_state' = RatingOf(el)
        /\ pc' = "yielded"

\* variant: the selection is not checked
NoneSelected_Unchecked(agents) == FALSE

\* `if not selected_agents`
NoneSelected(agents) == agents = <<>>

\* process_input_custom_agents up to its first yield: the selection, the
\* run id, the generator's set-up and its first iteration
Start(R, N, usr, r1, r2) ==
    /\ pc = "idle"
    /\ UNCHANGED <<topic_changed, db, api, logVars, ledgerVars, sessionVars>>
    /\ LET agents == [k \in 1..R |-> AgentConfig(k)] IN
       /\ selected_agents' = agents
       /\ iterations' = N
       /\ user_state' = usr
       /\ IF NoneSelected(agents)
          THEN \* "Keine Agenten ausgewaehlt!"
               /\ r1 = r2
               /\ r1 = CHOOSE r \in CallResults : TRUE
               /\ pc' = "rejected"
               /\ UNCHANGED <<discussion_id, chat_history, i, agent_outputs,
                              agent_output, calls, emitted, rating_state,
                              tally>>
          ELSE IF Len(agents) = 0
          THEN \* `i % num_agents` with num_agents = 0: ZeroDivisionError in
               \* the first iteration, before anything is appended or called
               /\ r1 = r2
               /\ r1 = CHOOSE r \in CallResults : TRUE
               /\ discussion_id' = Timestamp
               /\ pc' = "aborted"
               /\ UNCHANGED <<chat_history, i, agent_outputs, agent_output,
                              calls, emitted, rating_state, tally>>
          ELSE /\ discussion_id' = Timestamp
               /\ Iterate(agents, 0, [k \in 1..R |-> EmptyText], r1, r2)

\* variant: the loop runs once more
MoreIterations_Inclusive(n, N) == n < N

\* `for i in range(iterations)`: iteration n (0-based) is followed by another
MoreIterations(n, N) == n + 1 < N

\* `i > (iterations * 0.6)`
PastThreshold(n, N) == 10 * n > 6 * N

\* variant: the injection is not limited to one per run
Stagnant_Repeated(n, N, out, outputs, changed) ==
    /\ PastThreshold(n, N)
    /\ out = outputs[PrevIdx(n, Len(outputs)) + 1]

\* the condition of the stagnation injection
Stagnant(n, N, out, outputs, changed) ==
    /\ PastThreshold(n, N)
    /\ out = outputs[PrevIdx(n, Len(outputs)) + 1]
    /\ ~changed

\* the window after the stagnation check that follows the yield
AfterCheck(fire, outputs) ==
    IF fire THEN [k \in 1..Len(outputs) |-> NewTopic] ELSE outputs

\* the log of injections after the check that follows the yield of
\* iteration i + 1
Injected(fire) ==
    IF fire
    THEN Append(injections,
                [iteration |-> i + 1, out |-> agent_output,
                 prev |-> agent_outputs[PrevIdx(i, num_agents) + 1]])
    ELSE injections

\* the consumer asks for the element of a further iteration: the stagnation
\* check of the iteration before, then the next iteration
PullNext(r1, r2) ==
    /\ pc = "yielded"
    /\ MoreIterations(i, iterations)
    /\ UNCHANGED <<runVars, db, api, saved, ledgerVars, sessionVars>>
    /\ LET fire == Stagnant(i, iterations, agent_output, agent_outputs,
                            topic_changed)
       IN  /\ topic_changed' = (topic_changed \/ fire)
           /\ injections' = Injected(fire)
           /\ Iterate(selected_agents, i + 1,
                      AfterCheck(fire, agent_outputs), r1, r2)

\* ------------------------------------------------ save_discussion_data_db
Topic == "X"

\* variant: the table has no primary key
InsertRejected_NoKey(rows, did, ok) == ~ok

\* the INSERT is rejected (sqlite3.Error) when the primary key exists or
\* sqlite reports another error (ok = FALSE)
InsertRejected(rows, did, ok) ==
    ~ok \/ \E row \in rows : row.discussion_id = did

\* variant: without the except clause the error leaves the function
SaveRaises_Uncaught(rejected) == rejected

\* `except sqlite3.Error`: a rejected INSERT is logged and rolled back, it
\* does not leave save_discussion_data_db as an exception
SaveRaises(rejected) == FALSE

\* the table after save_discussion_data_db
save_discussion_data_db(rows, did, topic, agents, hist, summary, user, ok) ==
    IF InsertRejected(rows, did, ok) THEN rows
    ELSE rows \cup {[discussion_id |-> did, topic |-> topic,
                     agents |-> JsonDumps(agents),
                     chat_history |-> JsonDumps(hist),
                     summary |-> summary, user |-> user]}

\* the record of a save_discussion_data_db call in the log of saves
SaveCall(rows, did, topic, agents, hist, summary, user, ok) ==
    [discussion_id |-> did, topic |-> topic, agents |-> agents,
     chat_history |-> hist, summary |-> summary, user |-> user,
     stored |-> ~InsertRejected(rows, did, ok)]

\* ------------------------------------------------ load_discussion_data_db
\* variant: the rows are not filtered by user
Selected_Any(row, user) == TRUE

\* `if user:` SELECT ... WHERE user = ?, else SELECT * FROM discussions
Selected(row, user) == user = None \/ row.user = user

\* `json.loads(x) if x else []` on a stored column
JsonLoads(x) == IF x = EmptyText THEN <<>> ELSE x.json

\* the dict load_discussion_data_db returns, keyed by discussion_id (the
\* timestamp column, which sqlite fills in, is left out); qok: the SELECT
\* succeeded (a sqlite3.Error is logged and the dict stays empty)
load_discussion_data_db(rows, user, qok) ==
    LET sel == IF qok THEN { row \in rows : Selected(row, user) } ELSE {} IN
    [did \in { row.discussion_id : row \in sel } |->
        LET row == CHOOSE r \in sel : r.discussion_id = did IN
        [topic |-> row.topic, agents |-> JsonLoads(row.agents),
         chat_history |-> JsonLoads(row.chat_history),
         summary |-> row.summary, user |-> row.user]]

\* a call of save_discussion_data_db on its own, with a run id, by a caller
\* that has checked that a user is logged in
Save(did, topic, agents, hist, summary, user, ok) ==
    /\ pc = "idle"
    /\ Len(saved) < MaxSaves
    /\ db' = save_discussion_data_db(db, did, topic, agents, hist, summary,
                                     user, ok)
    /\ saved' = Append(saved, SaveCall(db, did, topic, agents, hist, summary,
                                       user, ok))
    /\ UNCHANGED <<pc, runVars, chat_history, i, agent_outputs, topic_changed,
                   agent_output, api, calls, emitted, rating_state,
                   injections, ledgerVars, sessionVars, tally>>

\* variant: the run is stored whether or not a user is logged in
Owned_Always(usr) == TRUE

\* `if user_state:`
Owned(usr) == usr # None

\* `final_text = agent_outputs[-1]`
FinalText(outputs) == outputs[Len(outputs)]

\* the consumer asks for an element after the one of iteration N: the
\* stagnation check, the summarization call ending as r, the summary entry,
\* storing the run for a logged-in user, the final statement, the last yield
PullLast(r, ok) ==
    /\ pc = "yielded"
    /\ ~MoreIterations(i, iterations)
    /\ UNCHANGED <<runVars, i, agent_output, api, ledgerVars, sessionVars>>
    /\ LET fire == Stagnant(i, iterations, agent_output, agent_outputs,
                            topic_changed)
           outputs == AfterCheck(fire, agent_outputs)
           sum_text == r.response
           hist1 == Append(chat_history, SummaryEntry(sum_text))
           hist2 == Append(hist1, FinalEntry(FinalText(outputs)))
           el == Element(hist2, sum_text, discussion_id, NoneIter, None)
           raised == /\ Owned(user_state)
                     /\ SaveRaises(InsertRejected(db, discussion_id, ok))
       IN  /\ ~Owned(user_state) => ok
           /\ topic_changed' = (topic_changed \/ fire)
           /\ injections' = Injected(fire)
           /\ agent_outputs' = outputs
           /\ calls' = <<Call(NoneIter, SumPrompt, r)>>
           /\ tally' = [tally EXCEPT !.calls = @ + 1]
           /\ db' = IF Owned(user_state)
                    THEN save_discussion_data_db(db, discussion_id, Topic,
                             active_agents_names, hist1, sum_text,
                             user_state, ok)
                    ELSE db
           /\ saved' = IF Owned(user_state)
                       THEN Append(saved,
                                   SaveCall(db, discussion_id, Topic,
                                            active_agents_names, hist1,
                                            sum_text, user_state, ok))
                       ELSE saved
           /\ IF raised
              THEN \* an exception leaves the generator: no further element
                   /\ chat_history' = hist1
                   /\ UNCHANGED <<emitted, rating_state>>
                   /\ pc' = "aborted"
              ELSE /\ chat_history' = hist2
                   /\ emitted' = Append(emitted, el)
                   /\ rating_state' = RatingOf(el)
                   /\ pc' = "final"

\* the consumer asks for an element after the last one: the generator ends
PullEnd ==
    /\ pc = "final"
    /\ pc' = "done"
    /\ UNCHANGED <<runVars, chat_history, i, agent_outputs, topic_changed,
                   agent_output, api, calls, emitted, rating_state, db, logVars,
                   ledgerVars, sessionVars, tally>>

\* variant: stopping takes the entries of the last iteration back
Stop_Rollback ==
    /\ pc = "yielded"
    /\ pc' = "stopped"
    /\ chat_history' = SubSeq(chat_history, 1, Len(chat_history) - 2)
    /\ UNCHANGED <<runVars, i, agent_outputs, topic_changed,
                   agent_output, api, calls, emitted, rating_state, db, logVars,
                   ledgerVars, sessionVars, tally>>

\* the consumer stops pulling while the generator is suspended at the yield
\* of an iteration
Stop ==
    /\ pc = "yielded"
    /\ pc' = "stopped"
    /\ UNCHANGED <<runVars, chat_history, i, agent_outputs, topic_changed,
                   agent_output, api, calls, emitted, rating_state, db, logVars,
                   ledgerVars, sessionVars, tally>>

\* ------------------------------------------------------- the rating ledger
\* A dict is a function on its keys. The keys of the iteration level are
\* ints in memory and their decimal texts in a JSON document.
EmptyDict == << >>
IntKey(k) == [type |-> "int", v |-> k]
StrKey(k) == [type |-> "str", v |-> k]

\* d[k] = v
Put(d, k, v) == [x \in DOMAIN d \cup {k} |-> IF x = k THEN v ELSE d[x]]

\* {"upvotes": 0, "downvotes": 0}
ZeroCounters == [upvotes |-> 0, downvotes |-> 0]

\* json.dump of the iteration level of a run: every key is written as text;
\* of two keys with the same text the one inserted later, the int, is the
\* one a reader keeps
DumpItems(items) ==
    [sk \in { StrKey(k.v) : k \in DOMAIN items } |->
        IF IntKey(sk.v) \in DOMAIN items THEN items[IntKey(sk.v)]
        ELSE items[sk]]

\* json.dump(data, f) of the ledger
JsonDump(L) == [json |-> [did \in DOMAIN L |-> DumpItems(L[did].items)]]

\* rating_data.json is missing (load_json_data then returns {})
NoRatingFile == [json |-> EmptyDict]

\* `defaultdict(lambda: defaultdict(dict), self.load_rating_data())`: the
\* runs of the document are plain dicts (auto = FALSE) with text keys; a run
\* the ledger creates itself is a defaultdict(dict) (auto = TRUE)
LoadedLedger(file) ==
    [did \in DOMAIN file.json |-> [auto |-> FALSE, items |-> file.json[did]]]

\* variant: a vote of one kind clears the counter of the other kind
Bump_Reset(c, rating_type) ==
    IF rating_type = "upvote"
    THEN [upvotes |-> c.upvotes + 1, downvotes |-> 0]
    ELSE IF rating_type = "downvote"
    THEN [upvotes |-> 0, downvotes |-> c.downvotes + 1]
    ELSE c

\* the `+= 1` on the counter the rating type names
Bump(c, rating_type) ==
    IF rating_type = "upvote" THEN [c EXCEPT !.upvotes = @ + 1]
    ELSE IF rating_type = "downvote" THEN [c EXCEPT !.downvotes = @ + 1]
    ELSE c

\* rate_agent_response up to save_rating_data: the ledger it leaves and the
\* exception it raises, if any
rate_agent_response(L, did, itn, agn, rating_type) ==
    LET key == IntKey(itn)
        \* self.discussion_ratings[discussion_id]
        L1 == IF did \in DOMAIN L THEN L
              ELSE Put(L, did, [auto |-> TRUE, items |-> EmptyDict])
        run == L1[did]
    IN  IF key \notin DOMAIN run.items /\ ~run.auto
        THEN \* [iteration] on a plain dict without the key
             [ledger |-> L1, error |-> "KeyError"]
        ELSE LET its == IF key \in DOMAIN run.items THEN run.items
                        ELSE Put(run.items, key, EmptyDict)
                 ags == IF agn \in DOMAIN its[key] THEN its[key]
                        ELSE Put(its[key], agn, ZeroCounters)
                 voted == [ags EXCEPT ![agn] = Bump(@, rating_type)]
             IN  [ledger |-> Put(L1, did,
                                 [run EXCEPT !.items = Put(its, key, voted)]),
                  error |-> "none"]

NoTally == [calls |-> 0, poor |-> 0]
NoVote == [n |-> 0, msg |-> None]
NoOther ==
    [pc |-> "idle", agents |-> <<>>, iterations |-> 0, i |-> 0,
     agent_outputs |-> <<>>, topic_changed |-> FALSE,
     agent_output |-> EmptyText,
     prompts |-> <<>>,         \* the prompts it has sent, in order
     outs |-> <<>>]            \* the outputs it has adopted, in order
NoRaters == << >>

NoRateCall ==
    [n |-> 0, did |-> None, iteration |-> NoneIter, agent_name |-> None,
     rating_type |-> None, error |-> "none", written |-> FALSE]

\* a call of rate_agent_response; wok: save_json_data could write the file
\* (an IOError is logged and the file is left as it was)
Rate(did, itn, agn, rating_type, wok) ==
    /\ pc = "idle"
    /\ rate_call.n < MaxRateCalls
    /\ LET res == rate_agent_response(discussion_ratings, did, itn, agn,
                                      rating_type)
           written == res.error = "none" /\ wok
       IN  /\ discussion_ratings' = res.ledger
           /\ rating_file' = IF written THEN JsonDump(res.ledger)
                             ELSE rating_file
           /\ rate_call' = [n |-> rate_call.n + 1, did |-> did,
                            iteration |-> itn, agent_name |-> agn,
                            rating_type |-> rating_type,
                            error |-> res.error, written |-> written]
    /\ UNCHANGED <<pc, runVars, chat_history, i, agent_outputs, topic_changed,
                   agent_output, api, calls, emitted, rating_state, db,
                   logVars, sessionVars, tally>>

\* variant: a run id is enough for a vote
VotePresent_IdOnly(r_state) == r_state.discussion_id # None

\* `if did and itn and agn:` on the values r_state.get(...) returns (None
\* for a key the state does not hold)
VotePresent(r_state) ==
    /\ r_state.discussion_id # None
    /\ r_state.iteration # NoneIter
    /\ r_state.agent_name # None

\* a click on a vote button: upvote_event or downvote_event with the UI's
\* rating state; wok: save_json_data could write the file
Vote(rating_type, wok) ==
    /\ pc \in {"idle", "rejected", "yielded", "final", "done", "stopped"}
    /\ vote.n < MaxVotes
    /\ IF VotePresent(rating_state)
       THEN LET did == rating_state.discussion_id
                itn == rating_state.iteration
                agn == rating_state.agent_name
                res == rate_agent_response(discussion_ratings, did, itn, agn,
                                           rating_type)
                written == res.error = "none" /\ wok
            IN  /\ discussion_ratings' = res.ledger
                /\ rating_file' = IF written THEN JsonDump(res.ledger)
                                  ELSE rating_file
                /\ rate_call' = [n |-> rate_call.n + 1, did |-> did,
                                 iteration |-> itn, agent_name |-> agn,
                                 rating_type |-> rating_type,
                                 error |-> res.error, written |-> written]
                /\ vote' = [n |-> vote.n + 1,
                            msg |-> IF res.error = "none" THEN "gegeben"
                                    ELSE res.error]
       ELSE \* "Fehler beim Upvote (fehlende Daten)."
            /\ vote' = [n |-> vote.n + 1, msg |-> "fehlende Daten"]
            /\ UNCHANGED ledgerVars
    /\ UNCHANGED <<pc, runVars, chat_history, i, agent_outputs, topic_changed,
                   agent_output, api, calls, emitted, rating_state, db,
                   logVars, tally, other, raters>>

\* ------------------------------- rate_agent_response, statement by statement
\* Gradio runs the vote callbacks in worker threads; the method takes no lock,
\* so the statements of two calls may interleave.
\* self.discussion_ratings[discussion_id][iteration]: the defaultdicts create
\* the run and the iteration on access
EnsureIter(L, did, key) ==
    LET L1 == IF did \in DOMAIN L THEN L
              ELSE Put(L, did, [auto |-> TRUE, items |-> EmptyDict])
    IN  IF key \in DOMAIN L1[did].items THEN L1
        ELSE [L1 EXCEPT ![did].items = Put(@, key, EmptyDict)]

\* ...[iteration][agent_name] = c
SetCounters(L, did, key, agn, c) ==
    [L EXCEPT ![did].items = Put(@, key, Put(@[key], agn, c))]

\* a thread enters rate_agent_response
RateEnter(did, itn, agn, rating_type) ==
    /\ pc = "idle"
    /\ Len(raters) < MaxRaters
    /\ raters' = Append(raters,
                        [pc |-> "check", did |-> did, iteration |-> itn,
                         agent_name |-> agn, rating_type |-> rating_type,
                         tmp |-> 0, orphan |-> FALSE, doc |-> NoRatingFile])
    /\ UNCHANGED <<pc, runVars, chat_history, i, agent_outputs, topic_changed,
                   agent_output, api, calls, emitted, rating_state, db,
                   logVars, ledgerVars, tally, vote, other>>

\* the next statement of thread t:
\*   check   `if agent_name not in self.discussion_ratings[...][iteration]`
\*   create  `...[agent_name] = {"upvotes": 0, "downvotes": 0}`; a thread that
\*           has fetched the dict this replaces goes on with the old dict
\*   read    the load half of `...[agent_name]["upvotes"] += 1`
\*   store   its store half, into the dict fetched by the load
\*   dump    save_json_data: json.dump serializes the ledger as it is now
\*   write   the text reaches rating_data.json (every write succeeds)
RateThread(t) ==
    LET r == raters[t]
        L == discussion_ratings
        key == IntKey(r.iteration)
        sameKey(u) == /\ raters[u].did = r.did
                      /\ raters[u].iteration = r.iteration
                      /\ raters[u].agent_name = r.agent_name
    IN
    /\ pc = "idle"
    /\ r.pc \notin {"done", "raised"}
    /\ CASE r.pc = "check" ->
             IF /\ r.did \in DOMAIN L
                /\ ~L[r.did].auto
                /\ key \notin DOMAIN L[r.did].items
             THEN /\ raters' = [raters EXCEPT ![t].pc = "raised"]
                  /\ UNCHANGED <<discussion_ratings, rating_file>>
             ELSE LET L2 == EnsureIter(L, r.did, key) IN
                  /\ discussion_ratings' = L2
                  /\ raters' = [raters EXCEPT ![t].pc =
                                   IF r.agent_name \in DOMAIN L2[r.did].items[key]
                                   THEN "read" ELSE "create"]
                  /\ UNCHANGED rating_file
         [] r.pc = "create" ->
             /\ discussion_ratings'
                    = SetCounters(L, r.did, key, r.agent_name, ZeroCounters)
             /\ raters' = [u \in DOMAIN raters |->
                              IF u = t THEN [r EXCEPT !.pc = "read"]
                              ELSE IF raters[u].pc = "store" /\ sameKey(u)
                              THEN [raters[u] EXCEPT !.orphan = TRUE]
                              ELSE raters[u]]
             /\ UNCHANGED rating_file
         [] r.pc = "read" ->
             LET c == L[r.did].items[key][r.agent_name] IN
             /\ raters' = [raters EXCEPT
                              ![t].pc = "store",
                              ![t].tmp = IF r.rating_type = "upvote"
                                         THEN c.upvotes ELSE c.downvotes]
             /\ UNCHANGED <<discussion_ratings, rating_file>>
         [] r.pc = "store" ->
             LET c == L[r.did].items[key][r.agent_name]
                 c2 == IF r.rating_type = "upvote"
                       THEN [c EXCEPT !.upvotes = r.tmp + 1]
                       ELSE [c EXCEPT !.downvotes = r.tmp + 1]
             IN
             /\ discussion_ratings'
                    = IF r.orphan THEN L
                      ELSE SetCounters(L, r.did, key, r.agent_name, c2)
             /\ raters' = [raters EXCEPT ![t].pc = "dump"]
             /\ UNCHANGED rating_file
         [] r.pc = "dump" ->
             /\ raters' = [raters EXCEPT ![t].pc = "write",
                                         ![t].doc = JsonDump(L)]
             /\ UNCHANGED <<discussion_ratings, rating_file>>
         [] r.pc = "write" ->
             /\ rating_file' = r.doc
             /\ raters' = [raters EXCEPT ![t].pc = "done"]
             /\ UNCHANGED discussion_ratings
    /\ UNCHANGED <<pc, runVars, chat_history, i, agent_outputs, topic_changed,
                   agent_output, api, calls, emitted, rating_state, db,
                   logVars, rate_call, tally, vote, other>>

\* the application is started again: __init__ loads the ledger from the file
Restart ==
    /\ pc = "idle"
    /\ discussion_ratings' = LoadedLedger(rating_file)
    /\ UNCHANGED <<pc, runVars, chat_history, i, agent_outputs, topic_changed,
                   agent_output, api, calls, emitted, rating_state, db,
                   logVars, rating_file, rate_call, sessionVars, tally>>

\* ----------------------------------------------------------- specifications
Users == {None, "u1"}

\* no run has been started
Fresh ==
    /\ selected_agents = <<>>
    /\ iterations = 0
    /\ user_state = None
    /\ discussion_id = None
    /\ i = 0
    /\ agent_outputs = <<>>
    /\ topic_changed = FALSE
    /\ agent_output = EmptyText
    /\ api = ApiInit
    /\ calls = <<>>
    /\ emitted = <<>>
    /\ rating_state = NoRating
    /\ injections = <<>>
    /\ saved = <<>>
    /\ rating_file = NoRatingFile
    /\ discussion_ratings = LoadedLedger(rating_file)
    /\ rate_call = NoRateCall
    /\ tally = NoTally
    /\ vote = NoVote
    /\ other = NoOther
    /\ raters = NoRaters

\* a run is started and its first element asked for; the calls end in S
\* (r2 is the end of the quality retry; without a retry it repeats r1)
StartRun(Rs, Ns, S) ==
    /\ pc = "idle"
    /\ \E R \in Rs, N \in Ns, usr \in Users :
           \E r1, r2 \in S : Start(R, N, usr, r1, r2)
NextTurn(S) ==
    /\ pc = "yielded"
    /\ \E r1, r2 \in S : PullNext(r1, r2)
Summarize(S) ==
    /\ pc = "yielded"
    /\ \E r \in S, ok \in BOOLEAN : PullLast(r, ok)

\* the consumer's for loop over the generator
Pulling ==
    \/ StartRun(0..MaxRoster, 1..MaxIter, CallResults)
    \/ NextTurn(CallResults)
    \/ Summarize(CallResults)
    \/ PullEnd

Next ==
    \/ Pulling
    \/ Stop

Init ==
    /\ pc = "idle"
    /\ Fresh
    /\ chat_history = <<>>
    /\ db = {}

Spec == Init /\ [][Next]_vars

\* the consumer keeps pulling
LiveSpec == Init /\ [][Pulling]_vars /\ WF_vars(Pulling)

\* longer runs with larger rosters, started on an empty or a used chatbot;
\* the service answers every attempt with a text or as unauthenticated
PlainOutcomes ==
    { o \in Outcomes :
        \/ o.kind = "text" /\ o.text \in {<<"ok">>, <<"Ich", "Wiederhole", "mich">>}
        \/ o.kind = "api_error" /\ o.status = 401 }

PlainResults ==
    { CallSummary(ApiStep(ApiInit, o)) : o \in PlainOutcomes }

LongInit ==
    /\ pc = "idle"
    /\ Fresh
    /\ chat_history \in {<<>>, <<PriorEntry>>}
    /\ db \in {{}, {OtherRow}}

LongNext ==
    \/ StartRun(1..MaxLongRoster, 1..MaxLongIter, PlainResults)
    \/ NextTurn(PlainResults)
    \/ Summarize(PlainResults)
    \/ PullEnd
    \/ Stop

LongSpec == LongInit /\ [][LongNext]_vars

\* runs long enough for more than one iteration past the stagnation
\* threshold; the service answers every attempt with one of two texts, one of
\* them classified poor
StagOutcomes ==
    { o \in Outcomes :
        o.kind = "text" /\ o.text \in {<<"ok">>, <<"Ich", "Wiederhole", "mich">>} }

StagResults ==
    { CallSummary(ApiStep(ApiInit, o)) : o \in StagOutcomes }

StagNext ==
    \/ StartRun(1..MaxStagRoster, 1..MaxStagIter, StagResults)
    \/ NextTurn(StagResults)
    \/ Summarize(StagResults)
    \/ PullEnd
    \/ Stop

StagSpec == Init /\ [][StagNext]_vars

\* votes on the turns of two runs, and restarts of the application
RateRuns == {"t1", "t2"}
RateIters == 1..2
RateAgents == {"A", "B"}
RateTypes == {"upvote", "downvote"}

RateNext ==
    \/ \E did \in RateRuns, itn \in RateIters, agn \in RateAgents,
          rating_type \in RateTypes, wok \in BOOLEAN :
            Rate(did, itn, agn, rating_type, wok)
    \/ Restart

RateSpec == Init /\ [][RateNext]_vars

\* calls of save_discussion_data_db for two run ids (timestamp strings) and
\* two users, with one of two contents
SaveRuns == {"t1", "t2"}
SaveUsers == {"u1", "u2"}
SaveContents ==
    { [topic |-> "X", agents |-> <<"A">>, chat_history |-> <<>>,
       summary |-> <<"ok">>],
      [topic |-> "Y", agents |-> <<"A", "B">>, chat_history |-> <<PriorEntry>>,
       summary |-> EmptyText] }

StoreNext ==
    \E did \in SaveRuns, c \in SaveContents, user \in SaveUsers,
       ok \in BOOLEAN :
        Save(did, c.topic, c.agents, c.chat_history, c.summary, user, ok)

StoreSpec == Init /\ [][StoreNext]_vars

\* runs during which the vote buttons are clicked
VoteNext ==
    \/ StartRun(0..MaxRoster, 1..MaxIter, StagResults)
    \/ NextTurn(StagResults)
    \/ Summarize(StagResults)
    \/ PullEnd
    \/ Stop
    \/ \E rating_type \in RateTypes, wok \in BOOLEAN : Vote(rating_type, wok)

VoteSpec == Init /\ [][VoteNext]_vars

\* votes on the first turn of a run that arrive in several threads
RaceNext ==
    \/ \E agn \in RateAgents, rating_type \in RateTypes :
          RateEnter("t1", 1, agn, rating_type)
    \/ \E t \in 1..MaxRaters : t \in DOMAIN raters /\ RateThread(t)

RaceSpec == Init /\ [][RaceNext]_vars

\* ------------------------------------------------------- a second run
\* the service answers every attempt with one of two texts, neither of them
\* classified poor
ConcOutcomes ==
    { o \in Outcomes :
        o.kind = "text" /\ o.text \in {<<"ok">>, <<"Neue", "Perspektive">>} }

ConcResults ==
    { CallSummary(ApiStep(ApiInit, o)) : o \in ConcOutcomes }

\* Every click on the start button calls the generator function anew; i,
\* agent_outputs, topic_changed and agent_output are locals of that call.
\* variant: the window is an attribute of the tab object, which the runs share
FrameWindow_Shared(own, foreign) ==
    IF Len(foreign) = Len(own) THEN foreign ELSE own

\* the window a generator's code reads: the one of its own frame
\* (`agent_outputs = [""] * num_agents`), whatever another run's frame holds
FrameWindow(own, foreign) == own

\* the body of the for loop for iteration n (0-based) of the second run, up to
\* its yield, on the locals o
OtherIterate(o, n, outputs, r1, r2) ==
    LET p == TurnPrompt(o.agents, n, outputs)
        first == r1.response
        poor == QualityRetry(first)
        out == IF poor THEN Adopt(first, r2.response) ELSE first
    IN  [o EXCEPT !.pc = "yielded", !.i = n, !.agent_output = out,
                  !.agent_outputs = SetSlot(outputs, n, out),
                  !.prompts = Append(@, p), !.outs = Append(@, out)]

\* the stagnation check of the second run after the yield of iteration o.i + 1
OtherFire(o, w) ==
    Stagnant(o.i, o.iterations, o.agent_output, w, o.topic_changed)

\* a pull on the second run's generator: its first element, a further one, or
\* the one after the last iteration (the summary and the final statement)
OtherPull(R, N, r1, r2) ==
    /\ pc \in {"idle", "yielded", "final", "done"}
    /\ QualityRetry(r1.response) \/ r2 = r1
    /\ UNCHANGED <<pc, runVars, chat_history, i, agent_outputs, topic_changed,
                   agent_output, api, calls, emitted, rating_state, db,
                   logVars, ledgerVars, tally, vote, raters>>
    /\ CASE other.pc = "idle" ->
             other' = OtherIterate(
                          [NoOther EXCEPT
                              !.agents = [k \in 1..R |-> AgentConfig(k)],
                              !.iterations = N],
                          0,
                          FrameWindow([k \in 1..R |-> EmptyText],
                                      agent_outputs),
                          r1, r2)
         [] other.pc = "yielded" ->
             LET w == FrameWindow(other.agent_outputs, agent_outputs)
                 fire == OtherFire(other, w)
                 o == [other EXCEPT !.topic_changed = @ \/ fire]
             IN  /\ R = Len(other.agents)
                 /\ N = other.iterations
                 /\ IF MoreIterations(other.i, other.iterations)
                    THEN other' = OtherIterate(o, other.i + 1,
                                               AfterCheck(fire, w), r1, r2)
                    ELSE /\ r2 = r1
                         /\ r1 = CHOOSE r \in ConcResults : TRUE
                         /\ other' = [o EXCEPT
                                         !.pc = "final",
                                         !.agent_outputs = AfterCheck(fire, w)]
         [] OTHER -> FALSE

\* two runs of two sessions that go on at the same time, their pulls in any
\* order
ConcNext ==
    \/ StartRun(1..MaxConcRoster, 1..MaxConcIter, ConcResults)
    \/ NextTurn(ConcResults)
    \/ Summarize(ConcResults)
    \/ PullEnd
    \/ \E R \in 1..MaxConcRoster, N \in 1..MaxConcIter :
          \E r1, r2 \in ConcResults : OtherPull(R, N, r1, r2)

ConcSpec == Init /\ [][ConcNext]_vars

\* a call of call_gemini_api on its own
GenInit ==
    /\ pc = "calling"
    /\ Fresh
    /\ chat_history = <<>>
    /\ db = {}

GenNext == \E o \in Outcomes : call_gemini_api(o)

GenSpec == GenInit /\ [][GenNext]_vars /\ WF_vars(GenNext)

TypeOK ==
    /\ pc \in {"idle", "rejected", "aborted", "calling", "returned",
               "yielded", "final", "done", "stopped"}
    /\ selected_agents \in Seq({AgentConfig(k) : k \in 1..Len(AgentNames)})
    /\ topic_changed \in BOOLEAN
    /\ Len(emitted) <= iterations + 1
    /\ api.attempt \in 0..api_max_retries
    /\ api.tries \in 0..(api_max_retries + 1)
    /\ i \in 0..(MaxIter + MaxLongIter)


\* ------------------------------------------------------------- properties
\* the speaker of iteration k (1-based) under round-robin
Speaker(k) == active_agents_names[((k - 1) % num_agents) + 1]

\* the "assistant" entries of the iterations, in transcript order
Answers == SelectSeq(chat_history, LAMBDA e : e.tag = "answer")

\* the text of the summary entry of a transcript that has one
SummaryText ==
    LET es == SelectSeq(chat_history, LAMBDA e : e.tag = "summary")
    IN  IF es = <<>> THEN NoResult ELSE es[1].text

LastEmitted == emitted[Len(emitted)]

\* the final element, with cleared iteration and agent, has been emitted
Completed ==
    /\ pc \in {"final", "done"}
    /\ emitted # <<>>
    /\ LastEmitted.iteration = NoneIter
    /\ LastEmitted.agent = None

C2_RoundRobin ==
    /\ \A k \in 1..Len(Answers) :
          /\ Answers[k].iteration = k
          /\ Answers[k].agent = Speaker(k)
    /\ \A k \in 1..Len(emitted) :
          emitted[k].iteration # NoneIter =>
              emitted[k].agent = Speaker(emitted[k].iteration)
    /\ \A j, k \in 1..Len(Answers) :
          (j < k /\ Answers[j].agent = Answers[k].agent) =>
              \A a \in 1..num_agents :
                  \E m \in j..(k - 1) :
                      Answers[m].agent = active_agents_names[a]

\* a completed run in which the roster wraps around: A, B, C, A
C2_Witness ==
    /\ Completed
    /\ num_agents = 3
    /\ Len(Answers) = 4
    /\ Answers[4].agent = "A"
    /\ Answers[3].agent = "C"

\* C3: a completed run started on an empty transcript holds, per iteration
\* k = 1..N in order, the prompt entry and the answer entry of iteration k
\* (N answer entries in all), then one summary entry, then one final entry.
C3_Transcript ==
    (Completed /\ chat_history[1].tag # "prior") =>
        /\ Len(chat_history) = 2 * iterations + 2
        /\ Len(Answers) = iterations
        /\ \A k \in 1..iterations :
              /\ chat_history[2 * k - 1].tag = "prompt"
              /\ chat_history[2 * k - 1].iteration = k
              /\ chat_history[2 * k].tag = "answer"
              /\ chat_history[2 * k].iteration = k
        /\ chat_history[2 * iterations + 1].tag = "summary"
        /\ chat_history[2 * iterations + 2].tag = "final"

\* a completed run of four iterations started on an empty transcript
C3_Witness ==
    /\ Completed
    /\ chat_history[1].tag # "prior"
    /\ iterations = 4
    /\ Len(Answers) = 4

C4_Elements ==
    /\ Len(emitted) <= iterations + 1
    /\ \A k \in 1..Len(emitted) :
          /\ emitted[k].discussion_id = discussion_id
          /\ emitted[k].discussion_id # None
          /\ k <= iterations =>
                /\ emitted[k].iteration = k
                /\ emitted[k].agent = Speaker(k)
          /\ (emitted[k].iteration = NoneIter \/ emitted[k].agent = None) =>
                k = iterations + 1
    /\ pc \in {"final", "done"} =>
          /\ Len(emitted) = iterations + 1
          /\ LastEmitted.iteration = NoneIter
          /\ LastEmitted.agent = None

\* after the last element the sequence produces nothing more
C4_Exhausted ==
    pc \in {"final", "done"} => (emitted' = emitted /\ pc' = "done")

\* C4: the run yields N+1 elements; element k <= N carries iteration k and
\* the speaker of iteration k; only the last carries cleared fields; all
\* carry the run id; after the last element nothing more is produced.
C4_Sequence == []C4_Elements /\ [][C4_Exhausted]_vars

\* the sequence of a run of two iterations has been pulled to exhaustion
C4_Witness ==
    /\ pc = "done"
    /\ iterations = 2
    /\ Len(emitted) = 3

\* texts call_gemini_api returns for a failed call
ExhaustedErrors ==
    {RateLimitMsg, OverloadMsg} \cup {UnexpectedMsg(e) : e \in ErrTexts}
TerminalErrors ==
    ExhaustedErrors \cup {AuthMsg} \cup {GenericMsg(e) : e \in ErrTexts}

C5_Returned ==
    /\ api.tries <= api_max_retries + 1
    /\ ~api.done => api.tries <= api_max_retries
    /\ api.done =>
          /\ api.tries >= 1
          /\ api.result \in (ReplyTexts \ {EmptyText}) \cup {EmptyMsg}
                               \cup TerminalErrors
          /\ api.last.kind = "text" => api.result = ReplyMsg(api.last.text)
          /\ api.last.kind # "text" => api.result \in TerminalErrors
          /\ api.result \in ExhaustedErrors =>
                api.tries = api_max_retries + 1

\* C5: call_gemini_api returns, after at most api_max_retries + 1 attempts,
\* the reply's text, the empty-response text or one of its error texts; the
\* texts that report exhausted retries come only after the last attempt.
C5_Generate == []C5_Returned /\ <>(api.done)

\* a call that returned the rate-limit text after four attempts
C5_Witness ==
    /\ api.done
    /\ api.tries = api_max_retries + 1
    /\ api.result = RateLimitMsg

\* the latest step of the generator was iteration i + 1
TurnDone == pc = "yielded" /\ calls # <<>> /\ calls[1].iter = i + 1

\* C6 (as claimed): when the quality retry ends in an error, the recorded
\* output and the window slot of the iteration keep the first, poor reply.
C6_Claim ==
    (TurnDone /\ Len(calls) = 2 /\ calls[2].last.kind # "text") =>
        /\ Answers[i + 1].text = calls[1].response
        /\ agent_output = calls[1].response
        /\ agent_outputs[AgentIdx(i, num_agents) + 1] = calls[1].response

\* C7: an iteration makes two calls if its first reply is classified poor,
\* the second with the fixed prompt, and one call otherwise; never more.
C7_OneRetry ==
    TurnDone =>
        /\ calls[1].prompt.kind = "turn"
        /\ Len(calls) =
             IF evaluate_response(calls[1].response) = "schlechte antwort"
             THEN 2 ELSE 1
        /\ Len(calls) = 2 => calls[2].prompt = CreativePrompt
        /\ \A k \in 1..Len(calls) : calls[k].iter = i + 1

\* an iteration whose retry was answered with a poor reply again
C7_Witness ==
    /\ TurnDone
    /\ i = 1
    /\ Len(calls) = 2
    /\ evaluate_response(calls[1].response) = "schlechte antwort"
    /\ evaluate_response(calls[2].response) = "schlechte antwort"
    /\ evaluate_response(Answers[1].text) = "gute antwort"

\* an attempt has just been made
Attempted == ~api.done /\ api'.tries = api.tries + 1

CanProceed ==
    ENABLED (NextTurn(CallResults) \/ Summarize(CallResults))

\* C9: no attempt follows a 401; a turn whose call ended with a 401 records
\* the authentication text, makes no quality retry, and the run goes on.
C9_Unauthenticated ==
    /\ \A k \in 1..Len(calls) : ~calls[k].after_auth
    /\ (TurnDone /\ calls[1].last.status = 401) =>
          /\ calls[1].response = AuthMsg
          /\ Len(calls) = 1
          /\ Answers[i + 1].text = AuthMsg
          /\ emitted[i + 1].chunk = AuthMsg
          /\ agent_output = AuthMsg
          /\ CanProceed

\* the first of two turns failed as unauthenticated and the run has gone on
\* to the second
C9_Witness ==
    /\ TurnDone
    /\ i = 1
    /\ Answers[1].text = AuthMsg
    /\ Len(Answers) = 2
    /\ calls[1].last.status = 401

\* the waits before retries of the call, in order
RetrySleeps == SelectSeq(api.sleeps, LAMBDA w : w.why = "retry")

RECURSIVE SumSecs(_)
SumSecs(ws) == IF ws = <<>> THEN 0 ELSE Head(ws).secs + SumSecs(Tail(ws))

\* the call failed K < api_max_retries times, each time with a 429, and
\* then got a reply
RateLimitedThenOk ==
    /\ api.done
    /\ api.last.kind = "text"
    /\ Len(RetrySleeps) < api_max_retries
    /\ \A k \in 1..Len(RetrySleeps) : RetrySleeps[k].status = 429

\* C10: after K < api_max_retries rate-limit failures and a success there
\* were K+1 attempts, the k-th wait was 2^k * d, the waits sum to
\* d * (2^(K+1) - 2), and the reply of the last attempt is returned.
C10_Backoff ==
    RateLimitedThenOk =>
        LET K == Len(RetrySleeps) IN
        /\ api.tries = K + 1
        /\ \A k \in 1..K : RetrySleeps[k].secs = (2 ^ k) * api_sleep_seconds
        /\ SumSecs(RetrySleeps) = api_sleep_seconds * ((2 ^ (K + 1)) - 2)
        /\ api.result = ReplyMsg(api.last.text)

\* two rate-limit failures, then a reply
C10_Witness ==
    /\ RateLimitedThenOk
    /\ Len(RetrySleeps) = 2
    /\ api.result = <<"ok">>

\* C11 (as claimed): every attempt on the remote service, successful or
\* failed, is followed by the fixed delay of api_sleep_seconds seconds.
C11_Claim ==
    [][Attempted =>
         /\ Len(api'.sleeps) = Len(api.sleeps) + 1
         /\ api'.sleeps[Len(api'.sleeps)].secs = api_sleep_seconds]_vars

\* C12 (as claimed): every wait before a retry that follows an overload
\* signal or another API failure that is not a rate limit lasts
\* api_sleep_seconds seconds, whatever failed on earlier attempts.
C12_Claim ==
    \A k \in 1..Len(RetrySleeps) :
        RetrySleeps[k].status # 429 =>
            RetrySleeps[k].secs = api_sleep_seconds

\* C13: a run injects the new topic at most once, never in an iteration
\* (1-based) below ceil(0.6 * N), and only in an iteration whose adopted
\* output equals the output in the window slot of the previous agent.
C13_Injection ==
    /\ Len(injections) <= 1
    /\ topic_changed <=> injections # <<>>
    /\ \A k \in 1..Len(injections) :
          LET inj == injections[k] IN
          /\ inj.iteration \in 1..iterations
          /\ 10 * inj.iteration >= 6 * iterations
          /\ inj.out = Answers[inj.iteration].text
          /\ inj.out = inj.prev

\* a run of one agent and six iterations that injected after iteration 5
\* and whose iteration 6 again repeated the content of the previous slot
C13_Witness ==
    /\ pc = "done"
    /\ num_agents = 1
    /\ iterations = 6
    /\ Len(injections) = 1
    /\ injections[1].iteration = 5
    /\ Answers[5].text = Answers[6].text

\* C14 (as claimed): in an iteration whose 1-based index exceeds 60% of N,
\* with no injection so far and the adopted output equal to the output in
\* the previous agent's slot, the injection happens when the run goes on.
C14_Claim ==
    [][(/\ pc = "yielded"
        /\ pc' \in {"yielded", "final"}
        /\ 10 * (i + 1) > 6 * iterations
        /\ ~topic_changed
        /\ agent_output = agent_outputs[PrevIdx(i, num_agents) + 1])
          => (/\ topic_changed'
              /\ Len(injections') = Len(injections) + 1)]_vars

\* the rows of the table that belong to the run
RunRows == { row \in db : row.discussion_id = discussion_id
                          /\ row.user = user_state }

\* C15: a run calls save_discussion_data_db at most once, after the
\* summarization call has returned, and only for a logged-in user; a run
\* without a user writes no row, and neither does a run whose consumer
\* stopped before the final element.
C15_SaveOnce ==
    /\ Len(saved) <= 1
    /\ Cardinality(db) <= Len(saved)
    /\ saved # <<>> =>
          /\ user_state # None
          /\ saved[1].user = user_state
          /\ pc \in {"final", "done"}
          /\ calls[1].prompt = SumPrompt
          /\ saved[1].summary = calls[1].response
          /\ saved[1].summary = SummaryText
    /\ user_state = None => (saved = <<>> /\ db = {})
    /\ pc \in {"idle", "rejected", "yielded", "stopped"} =>
          (saved = <<>> /\ db = {})

\* the completed run of a logged-in user has been stored, by one call
C15_Witness ==
    /\ pc = "done"
    /\ iterations = 2
    /\ Len(saved) = 1
    /\ RunRows # {}

\* C16 (as claimed): the transcript stored for a completed run of a
\* logged-in user is the run's whole transcript, the summary entry and the
\* final statement included.
C16_Claim ==
    Completed =>
        \A row \in RunRows : row.chat_history = JsonDumps(chat_history)

\* C17 (as claimed): the final statement holds the adopted output of the
\* agent that spoke in iteration N.
C17_Claim ==
    Completed =>
        /\ chat_history[Len(chat_history)].tag = "final"
        /\ chat_history[Len(chat_history)].text = Answers[iterations].text

\* C18: a start with an empty selection ends at once with the validation
\* message: no iteration, no call of the service, no transcript entry, no
\* save, no row, and no further step.
C18_EmptyRoster ==
    (pc # "idle" /\ selected_agents = <<>>) =>
        /\ pc = "rejected"
        /\ i = 0
        /\ discussion_id = None
        /\ calls = <<>>
        /\ api.tries = 0
        /\ chat_history = <<>>
        /\ emitted = <<>>
        /\ saved = <<>>
        /\ db = {}
        /\ ~ENABLED Next

\* a start with no agent selected and two iterations asked for
C18_Witness ==
    /\ pc = "rejected"
    /\ selected_agents = <<>>
    /\ iterations = 2
    /\ user_state # None

\* a call of rate_agent_response has just been made
RateStep == rate_call'.n = rate_call.n + 1

Range(f) == { f[x] : x \in DOMAIN f }

\* the ledger holds counters for the key, under the int or its text
HasCounters(L, did, itn, agn) ==
    /\ did \in DOMAIN L
    /\ \E k \in {IntKey(itn), StrKey(itn)} :
          /\ k \in DOMAIN L[did].items
          /\ agn \in DOMAIN L[did].items[k]

\* the counters of a key; zero for a key the ledger does not hold
Counters(L, did, itn, agn) ==
    IF ~HasCounters(L, did, itn, agn) THEN ZeroCounters
    ELSE LET items == L[did].items
             k == IF /\ IntKey(itn) \in DOMAIN items
                     /\ agn \in DOMAIN items[IntKey(itn)]
                  THEN IntKey(itn) ELSE StrKey(itn)
         IN  items[k][agn]

\* C19 (as claimed): a call of rate_agent_response raises no KeyError,
\* whatever the key and whether the ledger was built by votes or loaded from
\* the file; afterwards the key's counters are the former ones (zero if
\* there were none) with the voted one incremented by 1, and the file, when
\* it could be written, holds the whole ledger.
C19_Claim ==
    [][RateStep =>
         LET c == rate_call' IN
         /\ c.error = "none"
         /\ HasCounters(discussion_ratings', c.did, c.iteration, c.agent_name)
         /\ Counters(discussion_ratings', c.did, c.iteration, c.agent_name)
              = Bump(Counters(discussion_ratings, c.did, c.iteration,
                              c.agent_name), c.rating_type)
         /\ c.written => rating_file' = JsonDump(discussion_ratings')]_vars

\* C20: a call of rate_agent_response lowers no counter of any key, leaves
\* every counter non-negative, and leaves every key other than the voted one
\* as it was.
C20_Counters ==
    [][RateStep =>
         \A did \in RateRuns, itn \in RateIters, agn \in RateAgents :
            LET old == Counters(discussion_ratings, did, itn, agn)
                new == Counters(discussion_ratings', did, itn, agn)
                c == rate_call'
            IN  /\ old.upvotes >= 0 /\ old.downvotes >= 0
                /\ new.upvotes >= old.upvotes
                /\ new.downvotes >= old.downvotes
                /\ <<did, itn, agn>> # <<c.did, c.iteration, c.agent_name>> =>
                      /\ new = old
                      /\ HasCounters(discussion_ratings', did, itn, agn)
                           <=> HasCounters(discussion_ratings, did, itn, agn)
    ]_vars

\* three votes: an upvote and a downvote on one key, an upvote on another
C20_Witness ==
    /\ rate_call.n = 3
    /\ Counters(discussion_ratings, "t1", 1, "A")
         = [upvotes |-> 1, downvotes |-> 1]
    /\ Counters(discussion_ratings, "t1", 1, "B")
         = [upvotes |-> 1, downvotes |-> 0]
    /\ ~HasCounters(discussion_ratings, "t1", 2, "A")


\* ------------------------------------------------------------------ C21
\* the rows of the table that carry the run id did
RowsOf(did) == { row \in db : row.discussion_id = did }

\* a step that calls save_discussion_data_db
SaveStep == Len(saved') = Len(saved) + 1

\* C21 (part): a save whose run id already has a row leaves the table as it
\* was, so the row keeps its topic, agents, transcript, summary and owner, and
\* the caller goes on: the run yields its last element.
C21_Rejected ==
    (SaveStep /\ RowsOf(discussion_id) # {})
        => (db' = db /\ pc' = "final" /\ ~saved'[Len(saved')].stored)

\* C21: a save with a run id that already has a row never merges, updates or
\* replaces: the insert is rejected, the row stays as it was, the table holds
\* exactly one row for that run id, and the rejection does not fail the
\* caller.
C21_NoMerge ==
    /\ [](\A r1, r2 \in db : r1.discussion_id = r2.discussion_id => r1 = r2)
    /\ [][C21_Rejected]_vars

\* a logged-in user's run has completed while the table held another run's
\* row under the same run id, and sqlite reported no other error
C21_Witness ==
    /\ pc = "final"
    /\ db = {OtherRow}
    /\ Len(saved) = 1
    /\ saved[1].discussion_id = OtherRow.discussion_id
    /\ saved[1].user = "u1"
    /\ ~saved[1].stored

\* ------------------------------------------------------------------ C22
\* the calls in the log of saves that stored a row
StoredCalls == { k \in 1..Len(saved) : saved[k].stored }

\* what a loaded row says of the save call sc
AsSaved(sc) ==
    [topic |-> sc.topic, agents |-> sc.agents,
     chat_history |-> sc.chat_history, summary |-> sc.summary,
     user |-> sc.user]

C23_State ==
    pc = "stopped" =>
        LET k == Len(emitted) IN
        /\ k \in 1..iterations
        /\ i + 1 = k
        /\ Len(chat_history) = 2 * k
        /\ \A j \in 1..k :
              /\ chat_history[2 * j - 1].tag = "prompt"
              /\ chat_history[2 * j - 1].iteration = j
              /\ chat_history[2 * j].tag = "answer"
              /\ chat_history[2 * j].iteration = j
              /\ chat_history[2 * j].text = emitted[j].chunk
              /\ emitted[j].hist_len = 2 * j
        /\ \A c \in 1..Len(calls) : calls[c].iter = k
        /\ saved = <<>>
        /\ db = {}
        /\ injections = <<>> \/ injections[Len(injections)].iteration < k

\* the step in which the consumer stops changes nothing of the run, and no
\* step follows it
C23_Step ==
    /\ pc' = "stopped" =>
          /\ pc = "yielded"
          /\ UNCHANGED <<runVars, chat_history, i, agent_outputs, topic_changed,
                         agent_output, api, calls, emitted, rating_state, db,
                         logVars, ledgerVars, sessionVars, tally>>
    /\ pc # "stopped"

\* C23: when the consumer stops after k elements (1 <= k <= N), the run stays
\* exactly as it was when element k was emitted: the transcript holds the
\* entries of iterations 1..k only, nothing is removed or altered, and no
\* further call, summary, save or compensating action takes place.
C23_Stopped == []C23_State /\ [][C23_Step]_vars

\* the consumer has stopped after the first of two iterations, of which the
\* first reply was poor and generated a second time
C23_Witness ==
    /\ pc = "stopped"
    /\ iterations = 2
    /\ Len(emitted) = 1
    /\ Len(calls) = 2
    /\ user_state = "u1"


\* ------------------------------------------------------------------ C26
\* iteration k (1-based) follows an iteration whose stagnation check fired
AfterInjection(k) ==
    \E j \in 1..Len(injections) : injections[j].iteration = k - 1

\* the previous output a prompt of iteration k is expected to carry
ExpectedPrev(k) ==
    IF k = 1 THEN EmptyText
    ELSE IF AfterInjection(k) THEN NewTopic
    ELSE chat_history[2 * (k - 1)].text

\* C26: the prompt of iteration 1 carries the empty string as previous
\* output; the prompt of every iteration k >= 2 carries the output adopted in
\* iteration k - 1 (the retry's when it was adopted), for every roster size,
\* or the sentinel when the injection fired in iteration k - 1; the previous
\* agent it names is roster[(k - 2) mod R].
C26_PrevOutput ==
    /\ \A k \in 1..Len(Answers) :
          LET p == chat_history[2 * k - 1] IN
          /\ p.tag = "prompt"
          /\ p.iteration = k
          /\ p.text = ExpectedPrev(k)
          /\ p.prev_agent = active_agents_names[((k - 2) % num_agents) + 1]
    /\ pc = "yielded" =>
          /\ calls[1].prompt.kind = "turn"
          /\ calls[1].prompt.prev_output = ExpectedPrev(i + 1)
          /\ calls[1].prompt.prev_agent
                 = active_agents_names[((i - 1) % num_agents) + 1]

\* three agents: the prompt of the second iteration carried the first one's
\* output, the latest prompt carries the sentinel after an injection, and its
\* reply was generated a second time
C26_Witness ==
    /\ num_agents = 3
    /\ pc = "yielded"
    /\ AfterInjection(i + 1)
    /\ calls[1].prompt.prev_output = NewTopic
    /\ Len(calls) = 2
    /\ chat_history[3].text = <<"ok">>
    /\ chat_history[2].text = <<"ok">>

\* ------------------------------------------------------------------ C27
\* C27: within an iteration the stagnation check comes before the emission,
\* so when the consumer holds the element of iteration i that iteration's
\* check has been performed (no injection of that iteration is still to come).
C27_Claim ==
    pc = "yielded" =>
        ~Stagnant(i, iterations, agent_output, agent_outputs, topic_changed)

\* ------------------------------------------------------------------ C29
\* the iterations (1-based) whose loop variable passes `i > iterations * 0.6`
PastIterations == { k \in 1..iterations : 10 * (k - 1) > 6 * iterations }

\* the first of them
FirstPast == CHOOSE k \in PastIterations : \A j \in PastIterations : k <= j

\* with one agent: the injection is the one of the first iteration past the
\* threshold, as soon as the consumer has pulled past that element
C29_Fired ==
    num_agents = 1 =>
        IF PastIterations # {} /\ Len(emitted) > FirstPast
        THEN /\ Len(injections) = 1
             /\ injections[1].iteration = FirstPast
             /\ topic_changed
        ELSE injections = <<>> /\ ~topic_changed

\* with one agent: the pull that follows the first element past the
\* threshold injects, whatever the agent said
C29_Step ==
    (/\ num_agents = 1
     /\ pc = "yielded"
     /\ pc' \in {"yielded", "final"}
     /\ 10 * i > 6 * iterations
     /\ ~topic_changed)
        => /\ topic_changed'
           /\ injections' = <<[iteration |-> i + 1, out |-> agent_output,
                                prev |-> agent_output]>>
           /\ pc' = "final" => agent_outputs' = <<NewTopic>>
           /\ pc' = "yielded" => calls'[1].prompt.prev_output = NewTopic

\* C29: with a roster of one the previous slot is the speaker's own slot,
\* just overwritten, so the echo test always holds: the injection fires in
\* the first iteration that passes the 60% threshold, whatever the agent
\* said, provided the consumer pulls past that iteration's element.
C29_SingleAgent == []C29_Fired /\ [][C29_Step]_vars

\* one agent, six iterations: the injection came after iteration 5, whose
\* output differed from the one of iteration 4, and the prompt of iteration 6
\* carried the sentinel
C29_Witness ==
    /\ num_agents = 1
    /\ iterations = 6
    /\ pc = "final"
    /\ Len(injections) = 1
    /\ injections[1].iteration = 5
    /\ chat_history[11].text = NewTopic
    /\ chat_history[8].text # chat_history[10].text


\* ------------------------------------------------------------------ C28
\* a step of the run adds the calls it made, one after the other, to the
\* tally
C28_Counted ==
    tally' # tally => tally'.calls = tally.calls + Len(calls')

\* the calls of the run: one per iteration reached, one more for each
\* iteration whose first reply was poor, and the summarization call once the
\* run has completed
C28_Total ==
    /\ pc \in {"yielded", "stopped"} =>
          /\ tally.calls = (i + 1) + tally.poor
          /\ tally.poor <= i + 1
    /\ pc \in {"final", "done"} =>
          /\ tally.calls = iterations + tally.poor + 1
          /\ tally.calls >= iterations + 1
          /\ tally.calls <= 2 * iterations + 1
          /\ calls = <<Call(NoneIter, SumPrompt,
                            [response |-> calls[1].response,
                             last |-> calls[1].last,
                             after_auth |-> calls[1].after_auth])>>

\* C28: a completed run has made exactly N + P + 1 generate calls, P the
\* number of iterations whose first reply was poor, so between N + 1 and
\* 2N + 1; the calls are made one after the other, and the summarization
\* call is made however many turns were degraded.
C28_Calls == []C28_Total /\ [][C28_Counted]_vars

\* a completed run of two iterations: one first reply was poor, the other
\* turn ended with an error message, four calls in all
C28_Witness ==
    /\ pc = "done"
    /\ iterations = 2
    /\ tally = [calls |-> 4, poor |-> 1]
    /\ \E k \in 1..2 : Contains(Answers[k].text, ErrorMarker)


\* ------------------------------------------------------------------ C30
\* a click on a vote button
VoteStep == vote'.n = vote.n + 1

\* the run is streaming: the element emitted last is the one of a turn
Streaming == emitted # <<>> /\ LastEmitted.iteration # NoneIter

\* C30 (step): a click while the run is streaming counts under the run id,
\* iteration and agent of the element emitted last; a click before the first
\* element or after the completion element returns the missing-data label
\* and leaves the ledger and the file as they were.
C30_Vote ==
    VoteStep =>
        IF Streaming
        THEN LET el == LastEmitted
                 before == Counters(discussion_ratings, el.discussion_id,
                                    el.iteration, el.agent)
                 after == Counters(discussion_ratings', el.discussion_id,
                                   el.iteration, el.agent)
             IN  /\ vote'.msg = "gegeben"
                 /\ rate_call'.n = rate_call.n + 1
                 /\ rate_call'.did = el.discussion_id
                 /\ rate_call'.iteration = el.iteration
                 /\ rate_call'.agent_name = el.agent
                 /\ after = Bump(before, rate_call'.rating_type)
                 /\ \A itn \in 1..iterations, agn \in Range(active_agents_names) :
                       <<itn, agn>> # <<el.iteration, el.agent>>
                         => Counters(discussion_ratings', el.discussion_id,
                                     itn, agn)
                            = Counters(discussion_ratings, el.discussion_id,
                                       itn, agn)
        ELSE /\ vote'.msg = "fehlende Daten"
             /\ UNCHANGED <<discussion_ratings, rating_file, rate_call>>

\* C30: a vote cast through the UI callbacks while a run is streaming is
\* recorded under exactly the (run id, iteration, agent name) of the turn
\* element emitted last; once the completion element has been emitted, or
\* before any element, a vote is rejected with a missing-data message and
\* leaves the ledger and its file unchanged.
C30_Votes == [][C30_Vote]_vars

\* a vote was counted for the second turn of a run, and a later click, after
\* the completion element, was rejected
C30_Witness ==
    /\ pc = "final"
    /\ vote = [n |-> 2, msg |-> "fehlende Daten"]
    /\ rate_call.n = 1
    /\ rate_call.iteration = 2
    /\ rate_call.agent_name = "B"
    /\ Counters(discussion_ratings, discussion_id, 2, "B").upvotes = 1
    /\ rating_file = JsonDump(discussion_ratings)


\* ------------------------------------------------------------------ C25
\* the calls of rate_agent_response in threads for a key and a rating type
ThreadVotes(did, itn, agn, rating_type) ==
    Cardinality({ t \in DOMAIN raters :
                    /\ raters[t].did = did
                    /\ raters[t].iteration = itn
                    /\ raters[t].agent_name = agn
                    /\ raters[t].rating_type = rating_type })

\* C25 (as claimed): concurrent writes to the ledger are serialized: after
\* all concurrent rate calls have returned, whatever their interleaving, the
\* counters of each key equal the number of calls made for it (no lost
\* update) and the file equals the ledger in memory.
C25_Claim ==
    (raters # <<>> /\ \A t \in DOMAIN raters : raters[t].pc = "done") =>
        /\ \A agn \in RateAgents :
              LET c == Counters(discussion_ratings, "t1", 1, agn) IN
              /\ c.upvotes = ThreadVotes("t1", 1, agn, "upvote")
              /\ c.downvotes = ThreadVotes("t1", 1, agn, "downvote")
        /\ rating_file = JsonDump(discussion_ratings)


\* ------------------------------------------------------------------ C24
\* a run of the roster agents over N iterations on its own, replayed from the
\* outputs it adopted: its window and flag at the yield of the last of them,
\* the prompts it sent and the iterations whose check fired
RECURSIVE Alone(_, _, _)
Alone(agents, N, outs) ==
    IF outs = <<>>
    THEN [window |-> [k \in 1..Len(agents) |-> EmptyText],
          changed |-> FALSE, prompts |-> <<>>, fired |-> <<>>]
    ELSE LET k == Len(outs)
             prev == Alone(agents, N, SubSeq(outs, 1, k - 1))
             fire == /\ k >= 2
                     /\ Stagnant(k - 2, N, outs[k - 1], prev.window,
                                 prev.changed)
             w == AfterCheck(fire, prev.window)
         IN  [window |-> SetSlot(w, k - 1, outs[k]),
              changed |-> prev.changed \/ fire,
              prompts |-> Append(prev.prompts, TurnPrompt(agents, k - 1, w)),
              fired |-> IF fire THEN Append(prev.fired, k - 1)
                        ELSE prev.fired]

\* the decision of the check that follows the last iteration of that run
AloneLast(agents, N, outs) ==
    LET a == Alone(agents, N, outs) IN
    Stagnant(N - 1, N, outs[N], a.window, a.changed)

\* the outputs the first run has adopted, in order
AnswerTexts == [k \in 1..Len(Answers) |-> Answers[k].text]

\* the first run is where it would be on its own
C24_First ==
    LET a == Alone(selected_agents, iterations, AnswerTexts) IN
    /\ pc = "yielded" =>
          /\ i + 1 = Len(Answers)
          /\ agent_outputs = a.window
          /\ topic_changed = a.changed
          /\ injections = [j \in 1..Len(a.fired) |->
                             [iteration |-> a.fired[j],
                              out |-> injections[j].out,
                              prev |-> injections[j].prev]]
          /\ \A k \in 1..Len(Answers) :
                /\ chat_history[2 * k - 1] = UserEntry(a.prompts[k])
                /\ Answers[k].agent = a.prompts[k].agent
                /\ Answers[k].agent = Speaker(k)
    /\ pc \in {"final", "done"} =>
          LET fire == AloneLast(selected_agents, iterations, AnswerTexts) IN
          /\ topic_changed = (a.changed \/ fire)
          /\ agent_outputs = AfterCheck(fire, a.window)

\* the second run is where it would be on its own
C24_Second ==
    LET a == Alone(other.agents, other.iterations, other.outs) IN
    /\ other.pc = "yielded" =>
          /\ other.i + 1 = Len(other.outs)
          /\ other.agent_outputs = a.window
          /\ other.topic_changed = a.changed
          /\ other.prompts = a.prompts
    /\ other.pc = "final" =>
          LET fire == AloneLast(other.agents, other.iterations, other.outs) IN
          /\ other.prompts = a.prompts
          /\ other.topic_changed = (a.changed \/ fire)
          /\ other.agent_outputs = AfterCheck(fire, a.window)

\* C24: when several runs go on at the same time, under every interleaving
\* of their steps, the window, the iteration counter and the stagnation flag
\* of a run are read and written by that run only: its speakers, the previous
\* outputs in its prompts and its stagnation decisions are those of the run
\* on its own with the same replies.
C24_Independent == C24_First /\ C24_Second

\* two runs with one agent each: the second has completed three iterations
\* and injected, the first is at the second of its three iterations, with
\* another output in its window and nothing injected
C24_Witness ==
    /\ pc = "yielded"
    /\ num_agents = 1
    /\ iterations = 3
    /\ i = 1
    /\ ~topic_changed
    /\ other.pc = "final"
    /\ Len(other.agents) = 1
    /\ other.topic_changed
    /\ other.agent_outputs = <<NewTopic>>
    /\ other.outs[2] # agent_output
    /\ other.outs[1] # chat_history[2].text

====
